---- MODULE Spec2Model ----
(***************************************************************************)
(* Model of scripts/apply_breathable_spacing.py: the five blank-line       *)
(* passes, process_file and main.                                          *)
(*                                                                         *)
(* A line is a sequence of one-character strings including its terminator; *)
(* a text is the concatenation of its lines.  str.strip, str.startswith,   *)
(* str.endswith, str.count, the substring test and the regular expressions *)
(* are computed character by character.                                    *)
(***************************************************************************)
EXTENDS Integers, Sequences, FiniteSets, TLC

(***************************************************************************)
(* Bounds.                                                                 *)
(***************************************************************************)
MaxLen == 3

MaxScenarioLen == 3

NumFiles == 2

\* how many times in a row the pipeline is run on its own output
Runs == 2

(***************************************************************************)
(* Python string primitives.                                               *)
(***************************************************************************)
Whitespace == {" ", "\t", "\n", "\r"}

WordChars ==
  {"a","b","c","d","e","f","g","h","i","j","k","l","m","n","o","p","q","r",
   "s","t","u","v","w","x","y","z","A","B","C","D","E","F","G","H","I","J",
   "K","L","M","N","O","P","Q","R","S","T","U","V","W","X","Y","Z","0","1",
   "2","3","4","5","6","7","8","9","_"}

SetMin(S) == CHOOSE x \in S : \A y \in S : x <= y

SetMax(S) == CHOOSE x \in S : \A y \in S : y <= x

Last(s) == s[Len(s)]

\* str.strip(): drop leading and trailing whitespace
Strip(s) ==
  LET keep == {i \in 1..Len(s) : s[i] \notin Whitespace}
  IN  IF keep = {} THEN <<>> ELSE SubSeq(s, SetMin(keep), SetMax(keep))

\* str.startswith(p)
StartsWith(s, p) == Len(s) >= Len(p) /\ SubSeq(s, 1, Len(p)) = p

\* str.startswith((p1, p2, ...))
StartsWithAny(s, ps) == \E p \in ps : StartsWith(s, p)

\* str.endswith(p)
EndsWith(s, p) == Len(s) >= Len(p) /\ SubSeq(s, Len(s) - Len(p) + 1, Len(s)) = p

\* p in s
Contains(s, p) == \E i \in 0..(Len(s) - Len(p)) : SubSeq(s, i + 1, i + Len(p)) = p

\* str.count(c) for a one-character c
Count(s, c) == Cardinality({i \in 1..Len(s) : s[i] = c})

\* "".join(lines)
RECURSIVE Join(_)
Join(ls) == IF ls = <<>> THEN <<>> ELSE Head(ls) \o Join(Tail(ls))

\* the line terminators str.splitlines recognises, among the characters used
LineBreaks == {"\n", "\r"}

\* end index of the first line of a non-empty text ("\r\n" is one terminator)
FirstLineEnd(t) ==
  LET brk == {i \in 1..Len(t) : t[i] \in LineBreaks}
  IN  IF brk = {} THEN Len(t)
      ELSE LET b == SetMin(brk)
           IN  IF t[b] = "\r" /\ b < Len(t) /\ t[b + 1] = "\n" THEN b + 1 ELSE b

\* str.splitlines(keepends=True)
RECURSIVE SplitLines(_)
SplitLines(t) ==
  IF t = <<>> THEN <<>>
  ELSE LET e == FirstLineEnd(t)
       IN  <<SubSeq(t, 1, e)>> \o SplitLines(SubSeq(t, e + 1, Len(t)))

(***************************************************************************)
(* Regular expressions, matched with re.match (anchored at the start of    *)
(* the line as given, not of the stripped line).                           *)
(***************************************************************************)
\* the text left after the optional (?:pub\s+)? prefix, for each way to match it
AfterOptionalPub(s) ==
  {s} \cup
  (IF StartsWith(s, <<"p", "u", "b">>) /\ Len(s) >= 4 /\ s[4] \in Whitespace
   THEN LET rest == {i \in 4..Len(s) : s[i] \notin Whitespace}
        IN  IF rest = {} THEN {<<>>} ELSE {SubSeq(s, SetMin(rest), Len(s))}
   ELSE {})

\* keyword followed by \b
KeywordThenBoundary(r, kw) ==
  /\ StartsWith(r, kw)
  /\ (Len(r) = Len(kw) \/ r[Len(kw) + 1] \notin WordChars)

\* keyword followed by \s+
KeywordThenSpace(r, kw) ==
  /\ StartsWith(r, kw)
  /\ Len(r) > Len(kw)
  /\ r[Len(kw) + 1] \in Whitespace

ItemKeywords ==
  { <<"s", "t", "r", "u", "c", "t">>, <<"e", "n", "u", "m">>,
    <<"t", "r", "a", "i", "t">>, <<"i", "m", "p", "l">>, <<"f", "n">> }

\* ^(?:pub\s+)?(?:struct|enum|trait|impl|fn)\b
item_start_re(s) ==
  \E r \in AfterOptionalPub(s) : \E kw \in ItemKeywords : KeywordThenBoundary(r, kw)

\* ^(?:pub\s+)?(?:use|mod)\b
use_mod_re(s) ==
  \E r \in AfterOptionalPub(s) :
     \E kw \in {<<"u", "s", "e">>, <<"m", "o", "d">>} : KeywordThenBoundary(r, kw)

\* ^(?:pub\s+)?use\s+
use_re(s) == \E r \in AfterOptionalPub(s) : KeywordThenSpace(r, <<"u", "s", "e">>)

\* ^(?:pub\s+)?mod\s+
mod_re(s) == \E r \in AfterOptionalPub(s) : KeywordThenSpace(r, <<"m", "o", "d">>)

\* the line every pass inserts
NL == <<"\n">>

IsBlank(line) == Strip(line) = <<>>

AttrPrefixes == { <<"#", "[">>, <<"/", "/", "!">>, <<"/", "/", "/">> }

(***************************************************************************)
(* ensure_single_blank_between_items                                       *)
(***************************************************************************)
\* one iteration of the for loop
EnsureStep(lines, i, out) ==
  LET line == lines[i]
      out1 == Append(out, line)
  IN  IF i + 1 > Len(lines) THEN out1
      ELSE LET next_line == lines[i + 1]
           IN  IF item_start_re(next_line) \/ use_mod_re(next_line)
               THEN IF Strip(line) = <<>> THEN out1
                    ELSE IF StartsWithAny(Strip(line), AttrPrefixes) THEN out1
                    ELSE Append(out1, NL)
               ELSE out1

RECURSIVE EnsureLoop(_, _, _)
EnsureLoop(lines, i, out) ==
  IF i > Len(lines) THEN out
  ELSE EnsureLoop(lines, i + 1, EnsureStep(lines, i, out))

ensure_single_blank_between_items(lines) == EnsureLoop(lines, 1, <<>>)

(***************************************************************************)
(* group_import_blocks                                                     *)
(***************************************************************************)
IsUseOrMod(line) == use_re(line) \/ mod_re(line)

\* the inner while loop: first index at or after i that is not a use/mod line
RECURSIVE BlockEnd(_, _)
BlockEnd(lines, i) ==
  IF i <= Len(lines) /\ IsUseOrMod(lines[i]) THEN BlockEnd(lines, i + 1) ELSE i

\* GroupStep with the block copied from the line after its first line
GroupStepSkipsFirst(lines, i, out) ==
  IF IsUseOrMod(lines[i])
  THEN LET out1 == IF out # <<>> /\ Strip(Last(out)) # <<>>
                   THEN Append(out, NL) ELSE out
           j    == BlockEnd(lines, i)
           out2 == out1 \o SubSeq(lines, i + 1, j - 1)
           out3 == IF j <= Len(lines) /\ Strip(lines[j]) # <<>>
                   THEN Append(out2, NL) ELSE out2
       IN  [i |-> j, out |-> out3]
  ELSE [i |-> i + 1, out |-> Append(out, lines[i])]

\* one iteration of the outer while loop
GroupStep(lines, i, out) ==
  IF IsUseOrMod(lines[i])
  THEN LET out1 == IF out # <<>> /\ Strip(Last(out)) # <<>>
                   THEN Append(out, NL) ELSE out
           j    == BlockEnd(lines, i)
           out2 == out1 \o SubSeq(lines, i, j - 1)
           out3 == IF j <= Len(lines) /\ Strip(lines[j]) # <<>>
                   THEN Append(out2, NL) ELSE out2
       IN  [i |-> j, out |-> out3]
  ELSE [i |-> i + 1, out |-> Append(out, lines[i])]

RECURSIVE GroupLoop(_, _, _)
GroupLoop(lines, i, out) ==
  IF i > Len(lines) THEN out
  ELSE LET st == GroupStep(lines, i, out) IN GroupLoop(lines, st.i, st.out)

group_import_blocks(lines) == GroupLoop(lines, 1, <<>>)

(***************************************************************************)
(* inside_fn_blank_lines                                                   *)
(***************************************************************************)
ControlPrefixes ==
  { <<"i", "f", " ">>, <<"i", "f", "(">>, <<"m", "a", "t", "c", "h", " ">>,
    <<"f", "o", "r", " ">>, <<"w", "h", "i", "l", "e", " ">>,
    <<"l", "o", "o", "p">>, <<"r", "e", "t", "u", "r", "n", " ">> }

ClosePrefixes == { <<"}">>, <<")">>, <<",">>, <<"/", "/">> }

\* the while loop at the closing-brace rule: first non-blank index at or after j
RECURSIVE SkipBlank(_, _)
SkipBlank(lines, j) ==
  IF j <= Len(lines) /\ Strip(lines[j]) = <<>> THEN SkipBlank(lines, j + 1) ELSE j

\* one iteration of the for loop
InsideStep(lines, i, out, brace_depth) ==
  LET line       == lines[i]
      stripped   == Strip(line)
      prev_depth == brace_depth
      depth1     == brace_depth + Count(line, "{") - Count(line, "}")
      out1       == Append(out, line)
      out2       ==
        IF i + 1 <= Len(lines) /\ prev_depth > 0
        THEN LET nxt_s == Strip(lines[i + 1])
                 starts_control == StartsWithAny(nxt_s, ControlPrefixes)
             IN  IF starts_control /\ stripped # <<>>
                    /\ ~StartsWith(stripped, <<"/", "/">>)
                    /\ out1 # <<>> /\ Strip(Last(out1)) # <<>>
                 THEN Append(out1, NL) ELSE out1
        ELSE out1
      out3       ==
        IF EndsWith(stripped, <<"}">>) /\ prev_depth > 0
        THEN LET j == SkipBlank(lines, i + 1)
             IN  IF j <= Len(lines)
                 THEN LET nxt_s == Strip(lines[j])
                      IN  IF nxt_s # <<>> /\ ~StartsWithAny(nxt_s, ClosePrefixes)
                             /\ out2 # <<>> /\ Strip(Last(out2)) # <<>>
                          THEN Append(out2, NL) ELSE out2
                 ELSE out2
        ELSE out2
  IN  [out |-> out3, brace_depth |-> depth1]

RECURSIVE InsideLoop(_, _, _, _)
InsideLoop(lines, i, out, brace_depth) ==
  IF i > Len(lines) THEN out
  ELSE LET st == InsideStep(lines, i, out, brace_depth)
       IN  InsideLoop(lines, i + 1, st.out, st.brace_depth)

inside_fn_blank_lines(lines) == InsideLoop(lines, 1, <<>>, 0)

(***************************************************************************)
(* plugin_chain_spacing                                                    *)
(***************************************************************************)
is_resource_line(s) ==
  \E k \in { <<".", "i", "n", "i", "t", "_", "r", "e", "s", "o", "u", "r", "c", "e", "(">>,
             <<".", "i", "n", "s", "e", "r", "t", "_", "r", "e", "s", "o", "u", "r", "c", "e", "(">>,
             <<".", "a", "d", "d", "_", "e", "v", "e", "n", "t", "<">>,
             <<".", "a", "d", "d", "_", "e", "v", "e", "n", "t", "(">> } :
     Contains(s, k)

is_configure_sets_line(s) ==
  Contains(s, <<".", "c", "o", "n", "f", "i", "g", "u", "r", "e", "_", "s", "e", "t", "s", "(">>)

is_add_startup_line(s) ==
  Contains(s, <<".", "a", "d", "d", "_", "s", "y", "s", "t", "e", "m", "s", "(", "S", "t", "a", "r", "t", "u", "p">>)

is_add_update_line(s) ==
  Contains(s, <<".", "a", "d", "d", "_", "s", "y", "s", "t", "e", "m", "s", "(", "U", "p", "d", "a", "t", "e">>)

\* the if / elif / elif condition: a phase boundary lies before the line s
PhaseBoundary(s, prev_nonblank) ==
  \/ /\ is_configure_sets_line(s)
     /\ prev_nonblank # <<>>
     /\ is_resource_line(prev_nonblank)
  \/ /\ is_add_startup_line(s)
     /\ prev_nonblank # <<>>
     /\ (is_resource_line(prev_nonblank) \/ is_configure_sets_line(prev_nonblank))
  \/ /\ is_add_update_line(s)
     /\ prev_nonblank # <<>>
     /\ \/ is_add_startup_line(prev_nonblank)
        \/ is_configure_sets_line(prev_nonblank)
        \/ is_resource_line(prev_nonblank)

\* one iteration of the for loop
PluginStep(line, out, prev_nonblank) ==
  LET s == Strip(line)
  IN  IF s # <<>>
      THEN LET out1 == IF PhaseBoundary(s, prev_nonblank)
                          /\ out # <<>> /\ Strip(Last(out)) # <<>>
                       THEN Append(out, NL) ELSE out
           IN  [out |-> Append(out1, line), prev_nonblank |-> s]
      ELSE [out |-> Append(out, line), prev_nonblank |-> prev_nonblank]

RECURSIVE PluginLoop(_, _, _, _)
PluginLoop(lines, i, out, prev_nonblank) ==
  IF i > Len(lines) THEN out
  ELSE LET st == PluginStep(lines[i], out, prev_nonblank)
       IN  PluginLoop(lines, i + 1, st.out, st.prev_nonblank)

plugin_chain_spacing(lines) == PluginLoop(lines, 1, <<>>, <<>>)

(***************************************************************************)
(* cap_consecutive_blank_lines                                             *)
(***************************************************************************)
\* CapStep with the run length tested before it is incremented
CapStepTestsOldRun(line, out, blank_run, max_blanks) ==
  IF Strip(line) = <<>>
  THEN [out |-> IF blank_run <= max_blanks THEN Append(out, NL) ELSE out,
        blank_run |-> blank_run + 1]
  ELSE [out |-> Append(out, line), blank_run |-> 0]

\* one iteration of the for loop
CapStep(line, out, blank_run, max_blanks) ==
  IF Strip(line) = <<>>
  THEN [out |-> IF blank_run + 1 <= max_blanks THEN Append(out, NL) ELSE out,
        blank_run |-> blank_run + 1]
  ELSE [out |-> Append(out, line), blank_run |-> 0]

RECURSIVE CapLoop(_, _, _, _, _)
CapLoop(lines, i, out, blank_run, max_blanks) ==
  IF i > Len(lines) THEN out
  ELSE LET st == CapStep(lines[i], out, blank_run, max_blanks)
       IN  CapLoop(lines, i + 1, st.out, st.blank_run, max_blanks)

cap_consecutive_blank_lines(lines, max_blanks) == CapLoop(lines, 1, <<>>, 0, max_blanks)

\* the five passes of process_file, in its order
Pipeline(lines) ==
  cap_consecutive_blank_lines(
    inside_fn_blank_lines(
      plugin_chain_spacing(
        ensure_single_blank_between_items(
          group_import_blocks(lines)))), 2)

(***************************************************************************)
(* Line sequences handed to the passes.                                    *)
(***************************************************************************)
SeqsUpTo(S, n) == UNION {[1..k -> S] : k \in 0..n}

L_ws == <<" ", "\n">>

L_use == <<"u", "s", "e", " ", "a", ";", "\n">>

L_fn == <<"f", "n", " ", "f", "(", ")", " ", "{", "\n">>

L_close == <<"}", "\n">>

L_stmt == <<"x", ";", "\n">>

L_attr == <<"#", "[", "a", "]", "\n">>

L_if == <<"i", "f", " ", "x", " ", "{", "\n">>

L_event == <<"a", ".", "a", "d", "d", "_", "e", "v", "e", "n", "t", "(", "E", ")", ";", "\n">>

L_sets == <<"a", ".", "c", "o", "n", "f", "i", "g", "u", "r", "e", "_", "s", "e", "t", "s", "(", "S", ")", ";", "\n">>

Lines == {NL, L_ws, L_use, L_fn, L_close, L_stmt, L_attr, L_if, L_event, L_sets}

Inputs == SeqsUpTo(Lines, MaxLen)

\* the literal lines of the import-grouping and phase-ordering scenarios
L_use_ab == <<"u", "s", "e", " ", "a", ":", ":", "b", ";", "\n">>

L_use_cd == <<"u", "s", "e", " ", "c", ":", ":", "d", ";", "\n">>

L_fn_main == <<"f", "n", " ", "m", "a", "i", "n", "(", ")", " ", "{", "}", "\n">>

L_init_resource ==
  <<"a", "p", "p", ".", "i", "n", "i", "t", "_", "r", "e", "s", "o", "u", "r", "c", "e",
    ":", ":", "<", "F", "o", "o", ">", "(", ")", ";", "\n">>

L_configure_sets ==
  <<"a", "p", "p", ".", "c", "o", "n", "f", "i", "g", "u", "r", "e", "_", "s", "e", "t", "s",
    "(", "U", "p", "d", "a", "t", "e", ",", " ", "M", "y", "S", "e", "t", ")", ";", "\n">>

ScenarioLines == {NL, L_use_ab, L_use_cd, L_fn_main, L_init_resource, L_configure_sets}

ScenarioInputs == SeqsUpTo(ScenarioLines, MaxScenarioLen)

\* a last line with no terminator
L_stmt_noeol == <<"x", ";">>

\* file contents of the tree main walks: an empty file, files the pipeline
\* leaves as they are, and files it changes
FileTexts ==
  { Join(<<>>),
    Join(<<L_use, NL, L_stmt>>),
    Join(<<L_stmt_noeol>>),
    Join(<<L_stmt, L_use>>),
    Join(<<L_use, L_stmt_noeol>>),
    Join(<<L_ws>>) }

Files == 1..NumFiles

(***************************************************************************)
(* State.                                                                  *)
(*   input, lines, stage, first : the pipeline applied to a line sequence, *)
(*     pass by pass, twice in a row (stage counts the passes applied;      *)
(*     first is the output of the first run)                               *)
(*   fs .. reported : main walking the tree                                *)
(***************************************************************************)
VARIABLES input, lines, stage, first,
          fs, orig_fs, pc, p, txt, new_txt, changed, warnings,
          write_invoked, returned, reported

pipeVars == <<input, lines, stage, first>>

mainVars == <<fs, orig_fs, pc, p, txt, new_txt, changed, warnings,
              write_invoked, returned, reported>>

vars == <<input, lines, stage, first,
          fs, orig_fs, pc, p, txt, new_txt, changed, warnings,
          write_invoked, returned, reported>>

\* main before its loop starts
MainIdle(tree) ==
  /\ fs = tree
  /\ orig_fs = tree
  /\ pc = "loop"
  /\ p = 0
  /\ txt = <<>>
  /\ new_txt = <<>>
  /\ changed = 0
  /\ warnings = [f \in Files |-> 0]
  /\ write_invoked = {}
  /\ returned = [f \in Files |-> "none"]
  /\ reported = -1

PipeIdle(T) ==
  /\ input = T
  /\ lines = T
  /\ stage = 0
  /\ first = <<>>

(***************************************************************************)
(* The pipeline, one pass per step (process_file lines 208-212), run a     *)
(* second time on its own output.                                          *)
(***************************************************************************)
Passes == 5

\* the output of the first run is kept once its last pass has been applied
FirstAfter(result) == IF stage + 1 = Passes THEN result ELSE first

\* lines = group_import_blocks(lines)
GroupImportBlocks ==
  /\ stage < Passes * Runs
  /\ stage % Passes = 0
  /\ lines' = group_import_blocks(lines)
  /\ stage' = stage + 1
  /\ first' = FirstAfter(group_import_blocks(lines))
  /\ UNCHANGED <<input, mainVars>>

\* lines = ensure_single_blank_between_items(lines)
EnsureSingleBlankBetweenItems ==
  /\ stage < Passes * Runs
  /\ stage % Passes = 1
  /\ lines' = ensure_single_blank_between_items(lines)
  /\ stage' = stage + 1
  /\ first' = FirstAfter(ensure_single_blank_between_items(lines))
  /\ UNCHANGED <<input, mainVars>>

\* lines = plugin_chain_spacing(lines)
PluginChainSpacing ==
  /\ stage < Passes * Runs
  /\ stage % Passes = 2
  /\ lines' = plugin_chain_spacing(lines)
  /\ stage' = stage + 1
  /\ first' = FirstAfter(plugin_chain_spacing(lines))
  /\ UNCHANGED <<input, mainVars>>

\* lines = inside_fn_blank_lines(lines)
InsideFnBlankLines ==
  /\ stage < Passes * Runs
  /\ stage % Passes = 3
  /\ lines' = inside_fn_blank_lines(lines)
  /\ stage' = stage + 1
  /\ first' = FirstAfter(inside_fn_blank_lines(lines))
  /\ UNCHANGED <<input, mainVars>>

\* lines = cap_consecutive_blank_lines(lines, 2)
CapConsecutiveBlankLines ==
  /\ stage < Passes * Runs
  /\ stage % Passes = 4
  /\ lines' = cap_consecutive_blank_lines(lines, 2)
  /\ stage' = stage + 1
  /\ first' = FirstAfter(cap_consecutive_blank_lines(lines, 2))
  /\ UNCHANGED <<input, mainVars>>

Init == (\E T \in Inputs : PipeIdle(T)) /\ MainIdle([f \in Files |-> <<>>])

Next ==
  \/ GroupImportBlocks
  \/ EnsureSingleBlankBetweenItems
  \/ PluginChainSpacing
  \/ InsideFnBlankLines
  \/ CapConsecutiveBlankLines

Spec == Init /\ [][Next]_vars

InitScenario == (\E T \in ScenarioInputs : PipeIdle(T)) /\ MainIdle([f \in Files |-> <<>>])

SpecScenario == InitScenario /\ [][Next]_vars

(***************************************************************************)
(* main and process_file.  glob yields the files 1..NumFiles in order; a   *)
(* read or a write may raise, and the except clause of main catches it.    *)
(***************************************************************************)
\* for p in ROOT.glob(...): the next file, process_file(p) is entered
NextFile ==
  /\ pc = "loop"
  /\ p < NumFiles
  /\ p' = p + 1
  /\ pc' = "read"
  /\ UNCHANGED <<fs, orig_fs, txt, new_txt, changed, warnings, write_invoked,
                 returned, reported, pipeVars>>

\* txt = path.read_text(encoding="utf-8")
ReadOk ==
  /\ pc = "read"
  /\ txt' = fs[p]
  /\ pc' = "pipeline"
  /\ UNCHANGED <<fs, orig_fs, p, new_txt, changed, warnings, write_invoked,
                 returned, reported, pipeVars>>

\* ReadFail with the try around the loop instead of inside it
ReadFailEndsLoop ==
  /\ pc = "read"
  /\ warnings' = [warnings EXCEPT ![p] = @ + 1]
  /\ returned' = [returned EXCEPT ![p] = "read_raised"]
  /\ reported' = changed
  /\ pc' = "done"
  /\ UNCHANGED <<fs, orig_fs, p, txt, new_txt, changed, write_invoked, pipeVars>>

\* read_text raises; main prints the warning and goes on with the loop
ReadFail ==
  /\ pc = "read"
  /\ warnings' = [warnings EXCEPT ![p] = @ + 1]
  /\ returned' = [returned EXCEPT ![p] = "read_raised"]
  /\ pc' = "loop"
  /\ UNCHANGED <<fs, orig_fs, p, txt, new_txt, changed, write_invoked,
                 reported, pipeVars>>

\* lines = txt.splitlines(keepends=True); the five passes; new_txt = "".join(lines)
RunPipeline ==
  /\ pc = "pipeline"
  /\ new_txt' = Join(Pipeline(SplitLines(txt)))
  /\ pc' = "compare"
  /\ UNCHANGED <<fs, orig_fs, p, txt, changed, warnings, write_invoked,
                 returned, reported, pipeVars>>

\* WriteOk without the comparison of new_txt with txt
WriteOkUnconditional ==
  /\ pc = "compare"
  /\ fs' = [fs EXCEPT ![p] = new_txt]
  /\ write_invoked' = write_invoked \cup {p}
  /\ returned' = [returned EXCEPT ![p] = "True"]
  /\ changed' = changed + 1
  /\ pc' = "loop"
  /\ UNCHANGED <<orig_fs, p, txt, new_txt, warnings, reported, pipeVars>>

\* new_txt != txt: write_text succeeds, return True, changed += 1
WriteOk ==
  /\ pc = "compare"
  /\ new_txt # txt
  /\ fs' = [fs EXCEPT ![p] = new_txt]
  /\ write_invoked' = write_invoked \cup {p}
  /\ returned' = [returned EXCEPT ![p] = "True"]
  /\ changed' = changed + 1
  /\ pc' = "loop"
  /\ UNCHANGED <<orig_fs, p, txt, new_txt, warnings, reported, pipeVars>>

\* new_txt != txt: write_text raises, either before the file is opened for
\* writing or after it was truncated; main prints the warning
WriteFail ==
  /\ pc = "compare"
  /\ new_txt # txt
  /\ \E content \in {fs[p], <<>>} : fs' = [fs EXCEPT ![p] = content]
  /\ write_invoked' = write_invoked \cup {p}
  /\ returned' = [returned EXCEPT ![p] = "write_raised"]
  /\ warnings' = [warnings EXCEPT ![p] = @ + 1]
  /\ pc' = "loop"
  /\ UNCHANGED <<orig_fs, p, txt, new_txt, changed, reported, pipeVars>>

\* new_txt == txt: return False
ReturnFalse ==
  /\ pc = "compare"
  /\ new_txt = txt
  /\ returned' = [returned EXCEPT ![p] = "False"]
  /\ pc' = "loop"
  /\ UNCHANGED <<fs, orig_fs, p, txt, new_txt, changed, warnings, write_invoked,
                 reported, pipeVars>>

\* print(f"Files changed: {changed}")
Report ==
  /\ pc = "loop"
  /\ p = NumFiles
  /\ reported' = changed
  /\ pc' = "done"
  /\ UNCHANGED <<fs, orig_fs, p, txt, new_txt, changed, warnings, write_invoked,
                 returned, pipeVars>>

InitMain == (\E tree \in [Files -> FileTexts] : MainIdle(tree)) /\ PipeIdle(<<>>)

NextMain ==
  \/ NextFile
  \/ ReadOk
  \/ ReadFail
  \/ RunPipeline
  \/ WriteOk
  \/ WriteFail
  \/ ReturnFalse
  \/ Report

SpecMain == InitMain /\ [][NextMain]_vars

(***************************************************************************)
(* Vocabulary of the properties.                                           *)
(***************************************************************************)
NonBlank(ls) == SelectSeq(ls, LAMBDA l : ~IsBlank(l))

\* how many non-blank lines ls has up to and including index i
NonBlankRank(ls, i) == Cardinality({j \in 1..i : ~IsBlank(ls[j])})

\* index in ls of its k-th non-blank line (0 if there is none)
NonBlankPos(ls, k) ==
  LET at == {i \in 1..Len(ls) : ~IsBlank(ls[i]) /\ NonBlankRank(ls, i) = k}
  IN  IF at = {} THEN 0 ELSE SetMin(at)

\* where the non-blank input line i stands in the current line sequence
OutPos(i) == NonBlankPos(lines, NonBlankRank(input, i))

\* blank lines the current line sequence has between the adjacent non-blank
\* input lines i and i + 1
BlanksBetween(i) == OutPos(i + 1) - OutPos(i) - 1

NoLongBlankRun(ls) ==
  ~ \E i \in 1..(Len(ls) - 2) : IsBlank(ls[i]) /\ IsBlank(ls[i + 1]) /\ IsBlank(ls[i + 2])

\* brace depth before line i, as inside_fn_blank_lines accumulates it
RECURSIVE DepthBefore(_, _)
DepthBefore(ls, i) ==
  IF i <= 1 THEN 0
  ELSE DepthBefore(ls, i - 1) + Count(ls[i - 1], "{") - Count(ls[i - 1], "}")

IsAttrOrDoc(line) == StartsWithAny(Strip(line), AttrPrefixes)

PipelineDone == stage > 0 /\ stage % Passes = 0

FirstRunDone == stage = Passes

(***************************************************************************)
(* C1: the pipeline is idempotent: a second run on the output of the first *)
(* changes nothing.                                                        *)
(***************************************************************************)
C1_Idempotent == (PipelineDone /\ stage > Passes) => lines = first

(***************************************************************************)
(* C2: after every pass, and for every pass applied to the input on its    *)
(* own, the non-blank lines are those of the input, same text, same order. *)
(***************************************************************************)
C2_NonBlankPreserved ==
  /\ NonBlank(lines) = NonBlank(input)
  /\ stage = 0 =>
       /\ NonBlank(group_import_blocks(input)) = NonBlank(input)
       /\ NonBlank(ensure_single_blank_between_items(input)) = NonBlank(input)
       /\ NonBlank(plugin_chain_spacing(input)) = NonBlank(input)
       /\ NonBlank(inside_fn_blank_lines(input)) = NonBlank(input)
       /\ NonBlank(cap_consecutive_blank_lines(input, 2)) = NonBlank(input)

\* the pipeline ran on an input with several non-blank lines and inserted
\* blank lines between them
C2_Witness ==
  /\ FirstRunDone
  /\ Len(NonBlank(input)) >= 2
  /\ Len(lines) > Len(input)

(***************************************************************************)
(* C3: an attribute or doc line directly followed by an item-start or      *)
(* use/mod line is still directly followed by it after every pass.         *)
(***************************************************************************)
C3_AttributeAttached ==
  stage <= Passes =>
    \A i \in 1..(Len(input) - 1) :
       (IsAttrOrDoc(input[i]) /\ (item_start_re(input[i + 1]) \/ use_mod_re(input[i + 1])))
         => /\ OutPos(i) > 0
            /\ OutPos(i) < Len(lines)
            /\ lines[OutPos(i) + 1] = input[i + 1]

(***************************************************************************)
(* C4: the output of cap_consecutive_blank_lines, and so the output of the *)
(* pipeline, has no run of more than 2 consecutive blank lines.            *)
(***************************************************************************)
C4_CapInvariant ==
  /\ PipelineDone => NoLongBlankRun(lines)
  /\ stage = 0 => NoLongBlankRun(cap_consecutive_blank_lines(input, 2))

\* the pipeline ran on an input with a run of 3 or more blank lines
C4_Witness == FirstRunDone /\ ~NoLongBlankRun(input)

(***************************************************************************)
(* C5: use a::b; / use c::d; / fn main() {} comes out as use a::b; /       *)
(* use c::d; / blank / fn main() {}, and two adjacent use/mod lines of the *)
(* input are adjacent in the pipeline output.                              *)
(***************************************************************************)
C5_ImportGrouping ==
  FirstRunDone =>
    /\ input = <<L_use_ab, L_use_cd, L_fn_main>>
         => lines = <<L_use_ab, L_use_cd, NL, L_fn_main>>
    /\ \A i \in 1..(Len(input) - 1) :
          (IsUseOrMod(input[i]) /\ IsUseOrMod(input[i + 1])) => BlanksBetween(i) = 0

(***************************************************************************)
(* C6: app.init_resource::<Foo>(); directly followed by                    *)
(* app.configure_sets(Update, MySet); gets exactly one blank line between  *)
(* them, and none is added when one is already there.                      *)
(***************************************************************************)
C6_PhaseOrdering ==
  FirstRunDone =>
    /\ input = <<L_init_resource, L_configure_sets>>
         => lines = <<L_init_resource, NL, L_configure_sets>>
    /\ input = <<L_init_resource, NL, L_configure_sets>>
         => lines = <<L_init_resource, NL, L_configure_sets>>

(***************************************************************************)
(* C7: a line "}" at brace depth > 0 directly followed by a statement that *)
(* does not start with "}", ")", "," or "//" has exactly one blank line    *)
(* after it in the pipeline output; directly followed by a line starting   *)
(* with "}" it has none.                                                   *)
(***************************************************************************)
C7_ClosingBraceSpacing ==
  FirstRunDone =>
    \A i \in 1..(Len(input) - 1) :
       (Strip(input[i]) = <<"}">> /\ DepthBefore(input, i) > 0 /\ ~IsBlank(input[i + 1]))
         => IF StartsWith(Strip(input[i + 1]), <<"}">>)
            THEN BlanksBetween(i) = 0
            ELSE ~StartsWithAny(Strip(input[i + 1]), ClosePrefixes) => BlanksBetween(i) = 1

(***************************************************************************)
(* C8: main calls process_file on every file, prints one warning per file  *)
(* that raised and none for the others, counts exactly the files for which *)
(* process_file returned True, and reports that count.                     *)
(***************************************************************************)
Raised == {"read_raised", "write_raised"}

C8_FailureIsolation ==
  /\ changed = Cardinality({f \in Files : returned[f] = "True"})
  /\ \A f \in Files : warnings[f] = IF returned[f] \in Raised THEN 1 ELSE 0
  /\ pc = "done" =>
       /\ \A f \in Files : returned[f] # "none"
       /\ reported = Cardinality({f \in Files : returned[f] = "True"})

\* the run is over, the first file failed and a later one was changed
C8_Witness ==
  /\ pc = "done"
  /\ returned[1] \in Raised
  /\ \E f \in Files : f > 1 /\ returned[f] = "True"

(***************************************************************************)
(* C9: process_file calls write exactly when the pipeline output text      *)
(* differs from the text read; when it returns, it returns True in that    *)
(* case and False, leaving the file untouched, otherwise; a run over files *)
(* that the pipeline leaves as they are writes nothing and reports 0.      *)
(***************************************************************************)
Differs(f) == Join(Pipeline(SplitLines(orig_fs[f]))) # orig_fs[f]

C9_WriteIffDiffers ==
  /\ \A f \in Files :
       /\ f \in write_invoked => Differs(f)
       /\ returned[f] \in {"True", "False", "write_raised"}
            => (f \in write_invoked <=> Differs(f))
       /\ returned[f] = "True" => Differs(f)
       /\ returned[f] = "False" => (~Differs(f) /\ fs[f] = orig_fs[f])
  /\ (pc = "done" /\ \A f \in Files : ~Differs(f))
       => (write_invoked = {} /\ reported = 0 /\ fs = orig_fs)

\* the run is over; one file was rewritten and another was left as it was
C9_Witness ==
  /\ pc = "done"
  /\ \E f, g \in Files : returned[f] = "True" /\ fs[f] # orig_fs[f] /\ returned[g] = "False"

(***************************************************************************)
(* C10: cap_consecutive_blank_lines turns every run of 3 or more blank     *)
(* lines into 2 blank lines and leaves every other line, the blank lines   *)
(* of runs of 1 or 2 included, textually as it was.                        *)
(***************************************************************************)
\* length of the run of blank lines that ends at index i
RECURSIVE RunRank(_, _)
RunRank(ls, i) == IF i = 0 \/ ~IsBlank(ls[i]) THEN 0 ELSE 1 + RunRank(ls, i - 1)

\* length of the maximal run of blank lines that contains index i
RECURSIVE RunLen(_, _)
RunLen(ls, i) ==
  IF i < Len(ls) /\ IsBlank(ls[i + 1]) THEN RunLen(ls, i + 1) ELSE RunRank(ls, i)

CapContract(in, out) ==
  LET kept == {i \in 1..Len(in) : ~IsBlank(in[i]) \/ RunRank(in, i) <= 2}
  IN  /\ Len(out) = Cardinality(kept)
      /\ \A i \in kept :
           LET k == Cardinality({j \in kept : j <= i})
           IN  IF IsBlank(in[i]) /\ RunLen(in, i) >= 3
               THEN IsBlank(out[k])
               ELSE out[k] = in[i]

C10_CapKeepsText ==
  [][(stage % Passes = 4 /\ stage' = stage + 1) => CapContract(lines, lines')]_vars

====
